---- MODULE Spec2Model ----
(***************************************************************************)
(* A model of the momentum image viewer: the event loop of main.rs with    *)
(* its worker threads, the directory navigator of navigator.rs, and the    *)
(* loader of loader.rs (format dispatch, EXIF orientation, bilinear        *)
(* demosaic with the colour pipeline).                                     *)
(*                                                                         *)
(* File names are sequences of one-character strings, so that extension    *)
(* parsing, lowercasing and sorting are computed and not assumed.          *)
(***************************************************************************)
EXTENDS Integers, Sequences, FiniteSets, TLC

VARIABLES
    \* ---- event loop (main.rs) and State/Navigator (state.rs, navigator.rs)
    current_path,   \* Navigator::current_path : None or a path
    image_list,     \* Navigator::image_list   : sequence of paths
    texture,        \* State::diffuse_texture  : the path whose image is shown
    exif_data,      \* State::exif_data        : the path whose metadata is shown
    camera,         \* State::camera           : at its reset position or moved
    load_time,      \* State::load_time        : the path whose load time is shown
    workers,        \* spawned loader threads, in dispatch order
    events,         \* the event loop's queue of AppEvent::ImageLoaded
    stderr_log,     \* paths whose load failure was written to stderr
    \* ---- Navigator calls in isolation
    nav_ret,        \* what the last get_next_image / get_prev_image returned
    \* ---- loader: load_image / load_standard / load_raw
    ld_in,          \* the file handed to load_image
    ld_out,         \* what load_image returned
    \* ---- loader: apply_orientation
    or_img,         \* the image being oriented
    or_orig,        \* the image the run started from
    or_hist,        \* the orientation values applied so far
    \* ---- loader: demosaic_bilinear
    dm_in,          \* the arguments of demosaic_bilinear
    dm_out          \* its result

vars == <<current_path, image_list, texture, exif_data, camera, load_time,
          workers, events, stderr_log, nav_ret, ld_in, ld_out, or_img, or_orig, or_hist,
          dm_in, dm_out>>

loopVars == <<current_path, image_list, texture, exif_data, camera,
              load_time, workers, events, stderr_log>>
navVars == <<nav_ret>>
loadVars == <<ld_in, ld_out>>
orientVars == <<or_img, or_orig, or_hist>>
demosaicVars == <<dm_in, dm_out>>

\* What an event-loop step, a navigator call, a load, an orientation and a
\* demosaic leave alone: the variables of the other components
notLoop == <<navVars, loadVars, orientVars, demosaicVars>>
notNav == <<loopVars, loadVars, orientVars, demosaicVars>>
notLoad == <<loopVars, navVars, orientVars, demosaicVars>>
notOrient == <<loopVars, navVars, loadVars, demosaicVars>>
notDemosaic == <<loopVars, navVars, loadVars, orientVars>>

\* Option<T>: None is the empty sequence, Some(x) the one-element sequence
None == <<>>
Some(x) == <<x>>
Unwrap(o) == o[1]
Idle == "idle"

\* Camera: x = 0, y = 0, zoom = 1 as State::new and set_image leave it, or
\* panned or zoomed away from there
Home == "home"
Moved == "moved"

(***************************************************************************)
(* Characters, strings and paths                                           *)
(***************************************************************************)

Upper == <<"A","B","C","D","E","F","G","H","I","J","K","L","M",
           "N","O","P","Q","R","S","T","U","V","W","X","Y","Z">>
Lower == <<"a","b","c","d","e","f","g","h","i","j","k","l","m",
           "n","o","p","q","r","s","t","u","v","w","x","y","z">>
Digits == <<"0","1","2","3","4","5","6","7","8","9">>

\* The characters in byte order (the order PathBuf's Ord compares by).
ByteOrder == <<".">> \o Digits \o Upper \o Lower

ByteRank(c) == CHOOSE i \in 1..Len(ByteOrder) : ByteOrder[i] = c

\* char::to_lowercase on the characters above
ToLowerChar(c) ==
    IF \E i \in 1..Len(Upper) : Upper[i] = c
    THEN Lower[CHOOSE i \in 1..Len(Upper) : Upper[i] = c]
    ELSE c

\* str::to_lowercase
ToLowercase(s) == [i \in 1..Len(s) |-> ToLowerChar(s[i])]

\* Path::extension on a file name: None when the name has no dot, is "..",
\* or starts with its only dot; else the part after the last dot.
PathExtension(name) ==
    LET dots == {i \in 1..Len(name) : name[i] = "."}
    IN IF dots = {} \/ name = <<".", ".">> THEN None
       ELSE LET last == CHOOSE i \in dots : \A j \in dots : j <= i
            IN IF last = 1 THEN None
               ELSE Some(SubSeq(name, last + 1, Len(name)))

\* Lexicographic byte order on file names (Ord for paths of one directory).
NameLess(a, b) ==
    \E k \in 1..(Len(b)) :
        /\ \A j \in 1..(k - 1) : j <= Len(a) /\ a[j] = b[j]
        /\ \/ k = Len(a) + 1
           \/ k <= Len(a) /\ ByteRank(a[k]) < ByteRank(b[k])

(***************************************************************************)
(* The file system the viewer reads: two directories of files.  A file     *)
(* either decodes or does not; that is a property of its content.          *)
(***************************************************************************)

N_a_jpg == <<"a", ".", "j", "p", "g">>
N_b_NEF == <<"b", ".", "N", "E", "F">>
N_c_png == <<"c", ".", "p", "n", "g">>
N_n_txt == <<"n", ".", "t", "x", "t">>
N_B_jpeg == <<"B", ".", "j", "p", "e", "g">>
N_x_JPG == <<"x", ".", "J", "P", "G">>
N_y_bmp == <<"y", ".", "b", "m", "p">>

DirEntries(dir) ==
    CASE dir = "d1" -> {N_a_jpg, N_b_NEF, N_c_png, N_n_txt, N_B_jpeg}
      [] dir = "d2" -> {N_x_JPG, N_y_bmp}
      [] OTHER -> {}

Dirs == {"d1", "d2"}

MkPath(dir, name) == [dir |-> dir, name |-> name]

AllFiles == UNION {{MkPath(d, n) : n \in DirEntries(d)} : d \in Dirs}

\* The files whose content fails to decode (a truncated PNG, a text file).
CorruptFiles == {MkPath("d1", N_c_png), MkPath("d1", N_n_txt)}

(***************************************************************************)
(* Navigator (navigator.rs)                                                *)
(***************************************************************************)

RECURSIVE SortNames(_)
\* Vec::sort on the paths of one directory
SortNames(S) ==
    IF S = {} THEN <<>>
    ELSE LET m == CHOOSE a \in S : \A b \in S \ {a} : NameLess(a, b)
         IN <<m>> \o SortNames(S \ {m})

\* The extensions update_file_list keeps
NavExtensions == {<<"j","p","g">>, <<"j","p","e","g">>, <<"p","n","g">>,
                  <<"n","e","f">>, <<"c","r","2">>, <<"d","n","g">>,
                  <<"a","r","w">>}

\* The directory scan of update_file_list: the sorted image files of parent
ScanDir(parent) ==
    LET keep == {n \in DirEntries(parent) :
                    /\ PathExtension(n) # None
                    /\ ToLowercase(Unwrap(PathExtension(n))) \in NavExtensions}
        sorted == SortNames(keep)
    IN [i \in 1..Len(sorted) |-> MkPath(parent, sorted[i])]

\* Path::parent: None for a path that ends in a root, which has no name
Parent(path) == IF path.name = <<>> THEN None ELSE Some(path.dir)

\* Navigator::update_file_list: the image_list after the call
UpdatedList(list, path) ==
    IF Parent(path) = None THEN list
    ELSE LET needs_update ==
                IF list # <<>> THEN Parent(list[1]) # Parent(path) ELSE TRUE
         IN IF needs_update THEN ScanDir(Unwrap(Parent(path))) ELSE list

\* update_file_list assigning current_path after the early return and only
\* when the list is rescanned
UpdatedCurrent_onRescan(cur, list, path) ==
    IF UpdatedList(list, path) # list THEN Some(path) ELSE cur

\* Navigator::update_file_list: the current_path after the call on a
\* navigator holding cur and list, assigned before anything else
UpdatedCurrent(cur, list, path) == Some(path)

\* Iterator::position: the first index holding p, or 0 when there is none
Position(list, p) ==
    IF \E i \in 1..Len(list) : list[i] = p
    THEN CHOOSE i \in 1..Len(list) :
            list[i] = p /\ \A j \in 1..(i - 1) : list[j] # p
    ELSE 0

\* get_next_image wrapping around from the last entry to the first
get_next_image_wrap(cur, list) ==
    IF cur = None THEN None
    ELSE LET pos == Position(list, Unwrap(cur))
         IN IF pos = 0 THEN None
            ELSE IF pos + 1 <= Len(list) THEN Some(list[pos + 1])
            ELSE Some(list[1])

\* Navigator::get_next_image
get_next_image(cur, list) ==
    IF cur = None THEN None
    ELSE LET pos == Position(list, Unwrap(cur))
         IN IF pos # 0 /\ pos + 1 <= Len(list)
            THEN Some(list[pos + 1]) ELSE None

\* Navigator::get_prev_image
get_prev_image(cur, list) ==
    IF cur = None THEN None
    ELSE LET pos == Position(list, Unwrap(cur))
         IN IF pos # 0 /\ pos > 1 THEN Some(list[pos - 1]) ELSE None

\* A navigator call that has not happened
NavIdle == [call |-> "none", ret |-> None]

(***************************************************************************)
(* Navigator::get_next_image and get_prev_image called on a navigator in   *)
(* any state update_file_list can leave it in: a sorted list of distinct   *)
(* image files of one directory, and current_path unset, in the list, or   *)
(* a file that is not in the list.                                         *)
(***************************************************************************)

\* The most files of the directory the navigator has scanned
MaxNavFiles == 4

\* a.jpg, b.jpg, c.jpg, ... (the names of tests::test_navigation)
NavName(i) == <<Lower[i], ".", "j", "p", "g">>

NavDirFiles == {MkPath("d1", NavName(i)) : i \in 1..MaxNavFiles}

NavInit ==
    /\ \E S \in SUBSET {NavName(i) : i \in 1..MaxNavFiles} :
          image_list = [i \in 1..Cardinality(S) |->
                            MkPath("d1", SortNames(S)[i])]
    /\ current_path \in {None} \cup {Some(p) : p \in NavDirFiles}
    /\ texture = current_path
    /\ exif_data = current_path
    /\ camera = Home
    /\ load_time = current_path
    /\ workers = <<>>
    /\ events = <<>>
    /\ stderr_log = {}
    /\ nav_ret = NavIdle
    /\ ld_in = Idle /\ ld_out = Idle
    /\ or_img = Idle /\ or_orig = Idle /\ or_hist = Idle
    /\ dm_in = Idle /\ dm_out = Idle

\* nav.get_next_image() (&self: the navigator is only read)
CallGetNext ==
    /\ nav_ret' = [call |-> "next",
                   ret |-> get_next_image(current_path, image_list)]
    /\ UNCHANGED notNav

\* nav.get_prev_image() (&self: the navigator is only read)
CallGetPrev ==
    /\ nav_ret' = [call |-> "prev",
                   ret |-> get_prev_image(current_path, image_list)]
    /\ UNCHANGED notNav

NavNext ==
    \/ CallGetNext
    \/ CallGetPrev

SpecNav == NavInit /\ [][NavNext]_vars

\* The indices at which current_path is found in image_list
FoundAt == {i \in 1..Len(image_list) : current_path = Some(image_list[i])}

\* What the claim says the last call returned
NavReturns ==
    /\ nav_ret.call = "next" =>
          IF \E pos \in FoundAt : pos + 1 <= Len(image_list)
          THEN \E pos \in FoundAt : nav_ret.ret = Some(image_list[pos + 1])
          ELSE nav_ret.ret = None
    /\ nav_ret.call = "prev" =>
          IF \E pos \in FoundAt : pos > 1
          THEN \E pos \in FoundAt : nav_ret.ret = Some(image_list[pos - 1])
          ELSE nav_ret.ret = None

\* C7: get_next_image returns image_list[pos+1] when current_path is found
\* at index pos and pos+1 < len (counting from 0), and None in every other
\* case; get_prev_image returns image_list[pos-1] when current_path is found
\* at index pos > 0 and None in every other case; navigation never wraps,
\* and neither call modifies the navigator.
C7_NextPrev ==
    /\ []NavReturns
    /\ [][current_path' = current_path /\ image_list' = image_list]_vars

\* C7 witness: next was called with current_path the last of three entries
\* (no wrap-around: None), or prev with current_path in the middle.
C7_Witness ==
    /\ Len(image_list) = 3
    /\ \/ /\ nav_ret.call = "next"
          /\ current_path = Some(image_list[3])
          /\ nav_ret.ret = None
       \/ /\ nav_ret.call = "prev"
          /\ current_path = Some(image_list[2])
          /\ nav_ret.ret = Some(image_list[1])

(***************************************************************************)
(* Images and the orientation transform (loader.rs, apply_orientation).    *)
(* An image is its width, its height and its pixels in row-major order;    *)
(* pixel (x, y), counted from 0, is px[y * w + x + 1].                     *)
(***************************************************************************)

Pixel(img, x, y) == img.px[y * img.w + x + 1]

\* The column and the row of the i-th pixel of a row-major image of width w
XOf(i, w) == (i - 1) % w
YOf(i, w) == (i - 1) \div w

\* DynamicImage::fliph: out(w-1-x, y) = in(x, y)
fliph(img) ==
    [w |-> img.w, h |-> img.h,
     px |-> [i \in 1..(img.w * img.h) |->
                Pixel(img, img.w - 1 - XOf(i, img.w), YOf(i, img.w))]]

\* DynamicImage::flipv: out(x, h-1-y) = in(x, y)
flipv(img) ==
    [w |-> img.w, h |-> img.h,
     px |-> [i \in 1..(img.w * img.h) |->
                Pixel(img, XOf(i, img.w), img.h - 1 - YOf(i, img.w))]]

\* DynamicImage::rotate180: out(w-1-x, h-1-y) = in(x, y)
rotate180(img) ==
    [w |-> img.w, h |-> img.h,
     px |-> [i \in 1..(img.w * img.h) |->
                Pixel(img, img.w - 1 - XOf(i, img.w),
                           img.h - 1 - YOf(i, img.w))]]

\* rotate90 reading the source rows upwards from the wrong row: the rows
\* come out cyclically shifted and not reversed
rotate90_shifted(img) ==
    [w |-> img.h, h |-> img.w,
     px |-> [i \in 1..(img.w * img.h) |->
                Pixel(img, YOf(i, img.h), (XOf(i, img.h) + 1) % img.h)]]

\* DynamicImage::rotate90 (clockwise): the result is h wide and w high,
\* out(h-1-y, x) = in(x, y)
rotate90(img) ==
    [w |-> img.h, h |-> img.w,
     px |-> [i \in 1..(img.w * img.h) |->
                Pixel(img, YOf(i, img.h), img.h - 1 - XOf(i, img.h))]]

\* DynamicImage::rotate270: the result is h wide and w high,
\* out(y, w-1-x) = in(x, y)
rotate270(img) ==
    [w |-> img.h, h |-> img.w,
     px |-> [i \in 1..(img.w * img.h) |->
                Pixel(img, img.w - 1 - YOf(i, img.h), XOf(i, img.h))]]

\* apply_orientation with the arm of 6 rotating by 180 degrees
apply_orientation_6as3(img, orientation) ==
    CASE orientation = 2 -> fliph(img)
      [] orientation = 3 -> rotate180(img)
      [] orientation = 4 -> flipv(img)
      [] orientation = 5 -> fliph(rotate90(img))
      [] orientation = 6 -> rotate180(img)
      [] orientation = 7 -> fliph(rotate270(img))
      [] orientation = 8 -> rotate270(img)
      [] OTHER -> img

\* apply_orientation with the arms of 6 and 8 both rotating clockwise
apply_orientation_8as6(img, orientation) ==
    CASE orientation = 2 -> fliph(img)
      [] orientation = 3 -> rotate180(img)
      [] orientation = 4 -> flipv(img)
      [] orientation = 5 -> fliph(rotate90(img))
      [] orientation = 6 -> rotate90(img)
      [] orientation = 7 -> fliph(rotate270(img))
      [] orientation = 8 -> rotate90(img)
      [] OTHER -> img

\* apply_orientation with no arm for 1, and the default arm flipping
apply_orientation_default_flips(img, orientation) ==
    CASE orientation = 2 -> fliph(img)
      [] orientation = 3 -> rotate180(img)
      [] orientation = 4 -> flipv(img)
      [] orientation = 5 -> fliph(rotate90(img))
      [] orientation = 6 -> rotate90(img)
      [] orientation = 7 -> fliph(rotate270(img))
      [] orientation = 8 -> rotate270(img)
      [] OTHER -> fliph(img)

\* apply_orientation
apply_orientation(img, orientation) ==
    CASE orientation = 2 -> fliph(img)
      [] orientation = 3 -> rotate180(img)
      [] orientation = 4 -> flipv(img)
      [] orientation = 5 -> fliph(rotate90(img))
      [] orientation = 6 -> rotate90(img)
      [] orientation = 7 -> fliph(rotate270(img))
      [] orientation = 8 -> rotate270(img)
      [] OTHER -> img

\* What reading the Orientation tag of a file can give: the EXIF container
\* does not parse; it has no Orientation field; the field is not a Short;
\* the Short holds no value; the Short's first value is k.
ExifKinds == {"parse_error", "no_field", "not_short", "empty_short", "short"}

\* The EXIF orientation step of load_standard and load_raw: the transform
\* is applied only when the Orientation field is a Short with a first value.
ExifOrient(img, exif) ==
    IF exif.kind = "short" THEN apply_orientation(img, exif.k) ELSE img

\* The largest value of a u16 EXIF Short
MaxShort == 65535

\* Orientation values: 1..8, and 0, 9 and the largest Short outside them
OrientationValues == (0..9) \cup {MaxShort}

\* The largest side of the images oriented
MaxSide == 3

\* The image of tests::test_apply_orientation
TestWidth == 10
TestHeight == 20

\* The w x h image whose pixels are all different (pixel i holds i): any
\* move of a pixel shows.
Distinct(w, h) == [w |-> w, h |-> h, px |-> [i \in 1..(w * h) |-> i]]

OrientImages ==
    {Distinct(w, h) : w \in 1..MaxSide, h \in 1..MaxSide}
        \cup {Distinct(TestWidth, TestHeight)}

\* The most times one value is applied in a row
MaxApply == 4

\* One step of a run: a direct call of apply_orientation with k, or the
\* EXIF step of a load reading exif
OrientSteps ==
    {[via |-> "call", kind |-> "short", k |-> k] : k \in OrientationValues}
        \cup {[via |-> "exif", kind |-> "short", k |-> k] :
                    k \in OrientationValues}
        \cup {[via |-> "exif", kind |-> e, k |-> 0] :
                    e \in ExifKinds \ {"short"}}

OrientInit ==
    /\ or_orig \in OrientImages
    /\ or_img = or_orig
    /\ or_hist = <<>>
    /\ current_path = None
    /\ image_list = <<>>
    /\ texture = None
    /\ exif_data = None
    /\ camera = Home
    /\ load_time = None
    /\ workers = <<>>
    /\ events = <<>>
    /\ stderr_log = {}
    /\ nav_ret = NavIdle
    /\ ld_in = Idle /\ ld_out = Idle
    /\ dm_in = Idle /\ dm_out = Idle

\* Runs are all sequences of two steps, and one step repeated MaxApply times
MayStep(s) ==
    \/ Len(or_hist) < 2
    \/ Len(or_hist) < MaxApply /\ \A i \in 1..Len(or_hist) : or_hist[i] = s

\* apply_orientation(img, k)
ApplyOrientation ==
    \E s \in OrientSteps :
        /\ s.via = "call"
        /\ MayStep(s)
        /\ or_img' = apply_orientation(or_img, s.k)
        /\ or_hist' = Append(or_hist, s)
        /\ UNCHANGED or_orig
        /\ UNCHANGED notOrient

\* The EXIF step of a load on the decoded image
LoadOrientation ==
    \E s \in OrientSteps :
        /\ s.via = "exif"
        /\ MayStep(s)
        /\ or_img' = ExifOrient(or_img, s)
        /\ or_hist' = Append(or_hist, s)
        /\ UNCHANGED or_orig
        /\ UNCHANGED notOrient

OrientNext ==
    \/ ApplyOrientation
    \/ LoadOrientation

SpecOrient == OrientInit /\ [][OrientNext]_vars

\* The step just taken
LastStep == or_hist'[Len(or_hist')]

\* The orientation values a run has applied so far
Applied == [i \in 1..Len(or_hist) |-> or_hist[i].k]
AllShort == \A i \in 1..Len(or_hist) : or_hist[i].kind = "short"

\* C3: for every image of width W and height H, apply_orientation returns
\* an image of dimensions W x H for the values 1, 2, 3, 4 and of dimensions
\* H x W for the values 5, 6, 7, 8.
C3_Dimensions ==
    [][LastStep.via = "call" =>
          /\ LastStep.k \in 1..4 =>
                or_img'.w = or_img.w /\ or_img'.h = or_img.h
          /\ LastStep.k \in 5..8 =>
                or_img'.w = or_img.h /\ or_img'.h = or_img.w]_vars

\* C3 witness: the 10 x 20 image oriented with 6 is 20 x 10
C3_Witness ==
    /\ or_orig = Distinct(TestWidth, TestHeight)
    /\ Applied = <<6>> /\ or_hist[1].via = "call"
    /\ or_img.w = TestHeight /\ or_img.h = TestWidth

\* The inverse of each orientation value, per the claim's table
InverseOrientation ==
    [k \in 1..8 |-> CASE k = 6 -> 8 [] k = 8 -> 6 [] OTHER -> k]

\* C4: for every k in 1..8, applying k and then its inverse from the table
\* (1->1, 2->2, 3->3, 4->4, 5->5, 6->8, 7->7, 8->6) restores the original
\* dimensions and every pixel.
C4_Inverse ==
    \A k \in 1..8 :
        (AllShort /\ Applied = <<k, InverseOrientation[k]>>)
            => or_img = or_orig

\* C4 witness: the 10 x 20 image oriented with 6 and then with 8
C4_Witness ==
    /\ or_orig = Distinct(TestWidth, TestHeight)
    /\ Applied = <<6, 8>> /\ AllShort
    /\ or_img = or_orig

\* C5: applying 3 twice in a row, or 6 four times in a row, yields the
\* original image, dimensions and pixels.
C5_Cycles ==
    (AllShort /\ Applied \in {<<3, 3>>, <<6, 6, 6, 6>>}) => or_img = or_orig

\* C5 witness: a 2 x 3 image after four applications of 6
C5_Witness ==
    /\ or_orig = Distinct(2, 3)
    /\ Applied = <<6, 6, 6, 6>> /\ AllShort
    /\ or_img = or_orig

\* C6: apply_orientation(img, k) returns img unchanged for k = 1 and for
\* every k outside 1..8, and the EXIF step of a load applies no transform
\* when the file has no Orientation short value: out-of-range and absent
\* orientation behave as orientation 1.
C6_Identity ==
    [][/\ (LastStep.kind = "short" /\ LastStep.k \notin 2..8)
            => or_img' = or_img
       /\ LastStep.kind # "short" => or_img' = or_img]_vars

\* C6 witness: a non-square image after an out-of-range value and after an
\* EXIF read that found no Orientation field
C6_Witness ==
    /\ or_orig = Distinct(2, 3)
    /\ Len(or_hist) = 2
    /\ or_hist[1] = [via |-> "call", kind |-> "short", k |-> 9]
    /\ or_hist[2] = [via |-> "exif", kind |-> "no_field", k |-> 0]
    /\ or_img = or_orig

(***************************************************************************)
(* demosaic_bilinear (loader.rs): bilinear interpolation over the CFA,     *)
(* black level, range normalisation, white balance, colour matrix, gamma,  *)
(* 8-bit quantisation.                                                     *)
(*                                                                         *)
(* The f32 values are modelled as exact fractions n/d (d > 0), together    *)
(* with the two values a division by a zero range produces, +-infinity and *)
(* NaN.  The rounding of f32 arithmetic is not modelled.                   *)
(***************************************************************************)

RECURSIVE GCD(_, _)
GCD(a, b) == IF b = 0 THEN a ELSE GCD(b, a % b)

Abs(n) == IF n < 0 THEN -n ELSE n

\* The f32 value n/d, in lowest terms
Fin(n, d) ==
    LET g == GCD(Abs(n), d)
    IN [k |-> "fin", n |-> n \div g, d |-> d \div g]

PosInf == [k |-> "inf", n |-> 1, d |-> 1]
NegInf == [k |-> "inf", n |-> -1, d |-> 1]
NaN == [k |-> "nan", n |-> 0, d |-> 1]

\* The closure get: the sample at (x, y), 0.0 outside the frame
get(in, x, y) ==
    IF x >= in.width \/ y >= in.height
    THEN 0
    ELSE in.input[y * in.width + x + 1]

\* The interpolation arms with the horizontal and vertical pairs exchanged
\* at the G sites
Interp_pairsSwapped(in, x, y) ==
    LET row == y % 2
        col == x % 2
        own == 4 * get(in, x, y)
        cross == get(in, x - 1, y) + get(in, x + 1, y)
                    + get(in, x, y - 1) + get(in, x, y + 1)
        diag == get(in, x - 1, y - 1) + get(in, x + 1, y - 1)
                    + get(in, x - 1, y + 1) + get(in, x + 1, y + 1)
        horiz == 2 * (get(in, x - 1, y) + get(in, x + 1, y))
        vert == 2 * (get(in, x, y - 1) + get(in, x, y + 1))
    IN CASE in.pattern = "RGGB" ->
              (CASE row = 0 /\ col = 0 -> <<own, cross, diag>>
                 [] row = 0 /\ col = 1 -> <<vert, own, horiz>>
                 [] row = 1 /\ col = 0 -> <<horiz, own, vert>>
                 [] row = 1 /\ col = 1 -> <<diag, cross, own>>
                 [] OTHER -> <<0, 0, 0>>)
         [] in.pattern = "BGGR" ->
              (CASE row = 0 /\ col = 0 -> <<diag, cross, own>>
                 [] row = 0 /\ col = 1 -> <<horiz, own, vert>>
                 [] row = 1 /\ col = 0 -> <<vert, own, horiz>>
                 [] row = 1 /\ col = 1 -> <<own, cross, diag>>
                 [] OTHER -> <<0, 0, 0>>)
         [] OTHER -> <<own, own, own>>

\* The interpolation arms: (r, g, b) at (x, y), each multiplied by 4 so
\* that the means of two and of four samples stay integers.
Interp(in, x, y) ==
    LET row == y % 2
        col == x % 2
        own == 4 * get(in, x, y)
        cross == get(in, x - 1, y) + get(in, x + 1, y)
                    + get(in, x, y - 1) + get(in, x, y + 1)
        diag == get(in, x - 1, y - 1) + get(in, x + 1, y - 1)
                    + get(in, x - 1, y + 1) + get(in, x + 1, y + 1)
        horiz == 2 * (get(in, x - 1, y) + get(in, x + 1, y))
        vert == 2 * (get(in, x, y - 1) + get(in, x, y + 1))
    IN CASE in.pattern = "RGGB" ->
              (CASE row = 0 /\ col = 0 -> <<own, cross, diag>>
                 [] row = 0 /\ col = 1 -> <<horiz, own, vert>>
                 [] row = 1 /\ col = 0 -> <<vert, own, horiz>>
                 [] row = 1 /\ col = 1 -> <<diag, cross, own>>
                 [] OTHER -> <<0, 0, 0>>)
         [] in.pattern = "BGGR" ->
              (CASE row = 0 /\ col = 0 -> <<diag, cross, own>>
                 [] row = 0 /\ col = 1 -> <<vert, own, horiz>>
                 [] row = 1 /\ col = 0 -> <<horiz, own, vert>>
                 [] row = 1 /\ col = 1 -> <<own, cross, diag>>
                 [] OTHER -> <<0, 0, 0>>)
         [] OTHER -> <<own, own, own>>

\* The conditioning without .max(0.0): ((c - bl) / range) * gain
Normalize_noClamp(c4, bl, wl, gain) ==
    LET a4 == c4 - 4 * bl
        range == wl - bl
    IN IF range = 0 THEN (IF a4 = 0 THEN NaN ELSE PosInf)
       ELSE IF range > 0 THEN Fin(a4 * gain, 4 * range)
       ELSE Fin(-(a4 * gain), 4 * (-range))

\* ((c - bl).max(0.0) / range) * gain, for c = c4 / 4 and a gain > 0
Normalize(c4, bl, wl, gain) ==
    LET a4 == IF c4 - 4 * bl > 0 THEN c4 - 4 * bl ELSE 0
        range == wl - bl
    IN IF range = 0 THEN (IF a4 = 0 THEN NaN ELSE PosInf)
       ELSE IF range > 0 THEN Fin(a4 * gain, 4 * range)
       ELSE Fin(-(a4 * gain), 4 * (-range))

\* coefficient * v, the coefficient given in tenths (16 for 1.6)
Times(tenths, v) ==
    CASE v.k = "nan" -> NaN
      [] v.k = "inf" -> (IF (tenths > 0) = (v.n > 0) THEN PosInf ELSE NegInf)
      [] OTHER -> Fin(tenths * v.n, 10 * v.d)

\* a + b
Plus(a, b) ==
    CASE a.k = "nan" \/ b.k = "nan" -> NaN
      [] a.k = "inf" /\ b.k = "inf" -> (IF a.n = b.n THEN a ELSE NaN)
      [] a.k = "inf" -> a
      [] b.k = "inf" -> b
      [] OTHER -> Fin(a.n * b.d + b.n * a.d, a.d * b.d)

\* v.max(0.0).min(1.0): f32::max returns the other argument for a NaN
Clamp01(v) ==
    CASE v.k = "nan" -> Fin(0, 1)
      [] v.k = "inf" -> (IF v.n > 0 THEN Fin(1, 1) ELSE Fin(0, 1))
      [] v.n <= 0 -> Fin(0, 1)
      [] v.n >= v.d -> Fin(1, 1)
      [] OTHER -> v

\* The colour matrix with the blue term of the first row added, not subtracted
ColorMatrix_signSlip(r, g, b) ==
    << Clamp01(Plus(Plus(Times(16, r), Times(-3, g)), Times(3, b))),
       Clamp01(Plus(Plus(Times(-2, r), Times(14, g)), Times(-2, b))),
       Clamp01(Plus(Plus(Times(-1, r), Times(-3, g)), Times(14, b))) >>

\* The colour matrix, each row clamped to [0, 1]
ColorMatrix(r, g, b) ==
    << Clamp01(Plus(Plus(Times(16, r), Times(-3, g)), Times(-3, b))),
       Clamp01(Plus(Plus(Times(-2, r), Times(14, g)), Times(-2, b))),
       Clamp01(Plus(Plus(Times(-1, r), Times(-3, g)), Times(14, b))) >>

\* The decimal digits the gamma table resolves a value to
GammaDigits == 5

\* GammaTable[m], for m in 1..254: the least t with
\* floor(255 * (t / 10^GammaDigits)^(1/2.2)) >= m
GammaTable ==
    <<
      1, 3, 6, 11, 18, 27, 37, 50, 64, 81,
      100, 121, 144, 169, 197, 227, 259, 294, 331, 370,
      412, 456, 503, 553, 605, 659, 716, 776, 838, 903,
      970, 1040, 1113, 1189, 1267, 1348, 1432, 1518, 1607, 1699,
      1794, 1892, 1992, 2096, 2202, 2311, 2423, 2538, 2655, 2776,
      2900, 3026, 3156, 3288, 3424, 3562, 3703, 3848, 3995, 4146,
      4299, 4456, 4615, 4778, 4944, 5113, 5285, 5460, 5638, 5819,
      6004, 6191, 6382, 6576, 6773, 6973, 7177, 7383, 7593, 7806,
      8022, 8242, 8465, 8691, 8920, 9152, 9388, 9627, 9869, 10115,
      10364, 10616, 10872, 11130, 11393, 11658, 11927, 12199, 12475, 12753,
      13036, 13321, 13610, 13903, 14199, 14498, 14800, 15106, 15416, 15729,
      16045, 16365, 16688, 17014, 17344, 17678, 18015, 18355, 18699, 19047,
      19398, 19752, 20110, 20472, 20836, 21205, 21577, 21952, 22332, 22714,
      23100, 23490, 23883, 24280, 24681, 25085, 25492, 25903, 26318, 26736,
      27158, 27584, 28013, 28446, 28882, 29322, 29766, 30213, 30664, 31119,
      31577, 32039, 32504, 32973, 33446, 33923, 34403, 34887, 35375, 35866,
      36361, 36860, 37362, 37868, 38378, 38892, 39409, 39930, 40455, 40983,
      41515, 42051, 42591, 43135, 43682, 44233, 44788, 45346, 45908, 46475,
      47045, 47618, 48196, 48777, 49362, 49951, 50544, 51140, 51741, 52345,
      52953, 53565, 54180, 54800, 55423, 56050, 56681, 57316, 57955, 58598,
      59244, 59895, 60549, 61207, 61869, 62535, 63205, 63878, 64556, 65238,
      65923, 66612, 67305, 68003, 68704, 69409, 70117, 70830, 71547, 72268,
      72992, 73721, 74454, 75190, 75930, 76675, 77423, 78176, 78932, 79692,
      80456, 81225, 81997, 82773, 83553, 84337, 85126, 85918, 86714, 87514,
      88318, 89127, 89939, 90755, 91576, 92400, 93228, 94061, 94897, 95737,
      96582, 97431, 98283, 99140
    >>

RECURSIVE LongDiv(_, _, _)
\* floor(rem * 10^k / d), for 0 <= rem < d
LongDiv(rem, d, k) ==
    IF k = 0 THEN 0
    ELSE ((rem * 10) \div d) * (10 ^ (k - 1))
            + LongDiv((rem * 10) % d, d, k - 1)

RECURSIVE GammaSearch(_, _, _)
\* The number of m in 1..254 with GammaTable[m] <= t, given that it lies in
\* lo..hi (the table is increasing)
GammaSearch(t, lo, hi) ==
    IF lo = hi THEN lo
    ELSE LET mid == (lo + hi + 1) \div 2
         IN IF GammaTable[mid] <= t
            THEN GammaSearch(t, mid, hi)
            ELSE GammaSearch(t, lo, mid - 1)

\* The quantisation with the encoded value of 1.0 falling just below 1.0:
\* 254.99998 as u8 is 254
GammaByte_belowOne(v) ==
    IF v.n >= v.d THEN 254
    ELSE IF v.n = 0 THEN 0
    ELSE GammaSearch(LongDiv(v.n, v.d, GammaDigits), 0, 254)

\* (v.powf(1.0 / 2.2) * 255.0).min(255.0) as u8, for v in [0, 1]
GammaByte(v) ==
    IF v.n >= v.d THEN 255
    ELSE IF v.n = 0 THEN 0
    ELSE GammaSearch(LongDiv(v.n, v.d, GammaDigits), 0, 254)

\* The three output bytes of the interior pixel (x, y)
PixelBytes(in, x, y) ==
    LET c == Interp(in, x, y)
        r_norm == Normalize(c[1], in.blacklevels[1], in.whitelevels[1],
                            in.wb_coeffs[1])
        g_norm == Normalize(c[2], in.blacklevels[2], in.whitelevels[2],
                            in.wb_coeffs[2])
        b_norm == Normalize(c[3], in.blacklevels[3], in.whitelevels[3],
                            in.wb_coeffs[3])
        corrected == ColorMatrix(r_norm, g_norm, b_norm)
    IN <<GammaByte(corrected[1]), GammaByte(corrected[2]),
         GammaByte(corrected[3])>>

\* The loops running to height and width: the last row and column are written
InLoops_toEdge(in, x, y) ==
    /\ 1 <= y /\ y < in.height
    /\ 1 <= x /\ x < in.width

\* for y in 1..height-1 { for x in 1..width-1 { .. } }
InLoops(in, x, y) ==
    /\ 1 <= y /\ y < in.height - 1
    /\ 1 <= x /\ x < in.width - 1

\* demosaic_bilinear with the output allocated one pixel short
demosaic_bilinear_short(in) ==
    LET pix == [p \in 0..(in.width * in.height - 1) |->
                    IF InLoops(in, p % in.width, p \div in.width)
                    THEN PixelBytes(in, p % in.width, p \div in.width)
                    ELSE <<0, 0, 0>>]
    IN [j \in 1..((in.width * in.height - 1) * 3) |->
            pix[(j - 1) \div 3][((j - 1) % 3) + 1]]

\* demosaic_bilinear: the output Vec<u8> of width * height * 3 bytes,
\* zero except where the loops wrote
demosaic_bilinear(in) ==
    LET pix == [p \in 0..(in.width * in.height - 1) |->
                    IF InLoops(in, p % in.width, p \div in.width)
                    THEN PixelBytes(in, p % in.width, p \div in.width)
                    ELSE <<0, 0, 0>>]
    IN [j \in 1..(in.width * in.height * 3) |->
            pix[(j - 1) \div 3][((j - 1) % 3) + 1]]

(***************************************************************************)
(* The mosaics demosaic_bilinear is run on                                 *)
(***************************************************************************)

\* The largest width and height of a mosaic
MaxDim == 4

\* The largest sample of a mosaic (the sensor's saturation value)
MaxSample == 2

\* RGGB and BGGR, and a CFA name the match has no arm for
Patterns == {"RGGB", "BGGR", "GRBG"}

\* The sample value of tests::test_color_rendering
TestLevel == 1000

Quad(v) == <<v, v, v, v>>

\* Calibrations: neutral; white balance gains that differ; a black level
\* above 0; levels and gains that differ per channel; a white level equal
\* to the black level; a white level below the black level.
Calibrations ==
    { [whitelevels |-> Quad(MaxSample), blacklevels |-> Quad(0),
       wb_coeffs |-> Quad(1)],
      [whitelevels |-> Quad(MaxSample), blacklevels |-> Quad(0),
       wb_coeffs |-> <<2, 1, 1, 1>>],
      [whitelevels |-> Quad(MaxSample + 1), blacklevels |-> Quad(1),
       wb_coeffs |-> Quad(1)],
      [whitelevels |-> <<MaxSample, MaxSample + 1, MaxSample + 1, MaxSample>>,
       blacklevels |-> <<0, 1, 0, 0>>,
       wb_coeffs |-> <<1, 1, 2, 1>>],
      [whitelevels |-> Quad(1), blacklevels |-> Quad(1),
       wb_coeffs |-> Quad(1)],
      [whitelevels |-> Quad(1), blacklevels |-> Quad(2),
       wb_coeffs |-> Quad(1)] }

\* The mosaic repeating a 2 x 2 tile: tile[2 * row + col + 1] at each site
Periodic(w, h, tile) ==
    [i \in 1..(w * h) |-> tile[2 * (YOf(i, w) % 2) + (XOf(i, w) % 2) + 1]]

\* The mosaic holding bg everywhere but v at cell c
Impulse(w, h, bg, c, v) == [i \in 1..(w * h) |-> IF i = c THEN v ELSE bg]

\* The sample values used: dark, half and full scale
SampleLevels == {0, MaxSample \div 2, MaxSample}

\* Every mosaic that repeats a 2 x 2 tile, and every mosaic that is dark or
\* saturated everywhere but at one cell
Mosaics(w, h) ==
    {Periodic(w, h, tile) : tile \in [1..4 -> SampleLevels]}
        \cup {Impulse(w, h, bg, c, v) :
                bg \in {0, MaxSample}, c \in 1..(w * h), v \in SampleLevels}

\* The call of tests::test_color_rendering
TestInput ==
    [width |-> 4, height |-> 4, pattern |-> "RGGB",
     input |-> Periodic(4, 4, <<0, 0, 0, TestLevel>>),
     whitelevels |-> Quad(TestLevel), blacklevels |-> Quad(0),
     wb_coeffs |-> Quad(1)]

\* The arguments of a call on a w x h mosaic m
MkInput(w, h, p, m, c) ==
    [width |-> w, height |-> h, pattern |-> p, input |-> m,
     whitelevels |-> c.whitelevels, blacklevels |-> c.blacklevels,
     wb_coeffs |-> c.wb_coeffs]

DemosaicInit ==
    /\ \/ dm_in = TestInput
       \/ \E w \in 1..MaxDim, h \in 1..MaxDim :
            \E m \in Mosaics(w, h), p \in Patterns, c \in Calibrations :
                dm_in = MkInput(w, h, p, m, c)
    /\ dm_out = None
    /\ current_path = None
    /\ image_list = <<>>
    /\ texture = None
    /\ exif_data = None
    /\ camera = Home
    /\ load_time = None
    /\ workers = <<>>
    /\ events = <<>>
    /\ stderr_log = {}
    /\ nav_ret = NavIdle
    /\ ld_in = Idle /\ ld_out = Idle
    /\ or_img = Idle /\ or_orig = Idle /\ or_hist = Idle

\* let rgb_u8 = demosaic_bilinear(..)
Demosaic ==
    /\ dm_out = None
    /\ dm_out' = Some(demosaic_bilinear(dm_in))
    /\ UNCHANGED dm_in
    /\ UNCHANGED notDemosaic

DemosaicNext == Demosaic

SpecDemosaic == DemosaicInit /\ [][DemosaicNext]_vars

\* The bytes of output pixel (x, y): output[idx], [idx + 1], [idx + 2]
OutPixel(x, y) ==
    LET idx == (y * dm_in.width + x) * 3
        out == Unwrap(dm_out)
    IN <<out[idx + 1], out[idx + 2], out[idx + 3]>>

Columns == 0..(dm_in.width - 1)
Rows == 0..(dm_in.height - 1)

\* The pixels off the outermost ring
Interior(x, y) ==
    /\ 1 <= x /\ x <= dm_in.width - 2
    /\ 1 <= y /\ y <= dm_in.height - 2

\* Black levels 0, gains 1, one white level wl > 0 on all three channels
NeutralAt(wl) ==
    /\ wl > 0
    /\ \A c \in 1..3 :
        /\ dm_in.blacklevels[c] = 0
        /\ dm_in.wb_coeffs[c] = 1
        /\ dm_in.whitelevels[c] = wl

\* Every B site of RGGB (odd row, odd column) holds wl, every other site 0
BlueOnly(wl) ==
    \A x \in Columns, y \in Rows :
        get(dm_in, x, y) = IF x % 2 = 1 /\ y % 2 = 1 THEN wl ELSE 0

\* C8: for an RGGB mosaic whose B sites (odd row, odd column) all hold the
\* white level and whose other sites hold 0, with black levels 0 and gains
\* (1,1,1), the output is (0, 0, 255) at every interior B site.
C8_PureBlue ==
    (/\ dm_out # None
     /\ dm_in.pattern = "RGGB"
     /\ NeutralAt(dm_in.whitelevels[1])
     /\ BlueOnly(dm_in.whitelevels[1]))
    => \A x \in Columns, y \in Rows :
          (Interior(x, y) /\ x % 2 = 1 /\ y % 2 = 1)
              => OutPixel(x, y) = <<0, 0, 255>>

\* C8 witness: the test's 4 x 4 mosaic, white level 1000: (0, 0, 255) at (1,1)
C8_Witness ==
    /\ dm_in = TestInput
    /\ dm_out # None
    /\ OutPixel(1, 1) = <<0, 0, 255>>

\* C9: for every mosaic with width >= 2 and height >= 2, every pattern and
\* every calibration, all three output bytes are zero at every pixel of the
\* outermost one-pixel ring; a 2 x 2 mosaic yields an all-zero frame.
C9_ZeroRing ==
    (dm_out # None /\ dm_in.width >= 2 /\ dm_in.height >= 2)
    => \A x \in Columns, y \in Rows :
          ~Interior(x, y) => OutPixel(x, y) = <<0, 0, 0>>

\* C9 witness: a 3 x 3 mosaic of non-zero samples whose centre pixel is
\* written and whose ring is zero
C9_Witness ==
    /\ dm_out # None
    /\ dm_in.width = 3 /\ dm_in.height = 3
    /\ \A i \in 1..9 : dm_in.input[i] = MaxSample
    /\ OutPixel(1, 1) = <<255, 255, 255>>
    /\ OutPixel(0, 0) = <<0, 0, 0>> /\ OutPixel(2, 2) = <<0, 0, 0>>

\* C10: for every pattern name other than "RGGB" and "BGGR", every mosaic
\* and every calibration with white level > black level on each channel
\* (any white-balance gains), R = G = B at every interior pixel.
C10_UnknownIsGray ==
    (/\ dm_out # None
     /\ dm_in.pattern \notin {"RGGB", "BGGR"}
     /\ \A c \in 1..3 : dm_in.whitelevels[c] > dm_in.blacklevels[c])
    => \A x \in Columns, y \in Rows :
          Interior(x, y) =>
              /\ OutPixel(x, y)[1] = OutPixel(x, y)[2]
              /\ OutPixel(x, y)[2] = OutPixel(x, y)[3]

\* Every site of the mosaic holds v
Uniform(v) == \A x \in Columns, y \in Rows : get(dm_in, x, y) = v

RawExtensions == {<<"n","e","f">>, <<"c","r","2">>, <<"d","n","g">>,
                  <<"a","r","w">>}

\* Option::unwrap_or_default on an Option<String>
UnwrapOrDefault(o) == IF o = None THEN <<>> ELSE Unwrap(o)

\* The match of load_image on the extension as the path spells it
Route_caseSensitive(name) ==
    IF UnwrapOrDefault(PathExtension(name)) \in RawExtensions
    THEN "raw" ELSE "standard"

\* The match of load_image on the lowercased extension
Route(name) ==
    IF ToLowercase(UnwrapOrDefault(PathExtension(name))) \in RawExtensions
    THEN "raw" ELSE "standard"

\* The image image::load_from_memory decodes from a standard file
StdImage == Distinct(2, 3)

\* The frame rawloader decodes from a RAW file with an integer payload
RawFrame ==
    [width |-> 4, height |-> 3, pattern |-> "RGGB",
     input |-> Impulse(4, 3, MaxSample, 6, 0),
     whitelevels |-> Quad(MaxSample), blacklevels |-> Quad(0),
     wb_coeffs |-> Quad(1)]

\* The frames rawloader decodes from the RAW files loaded: a 4 x 3 RGGB frame
\* and a 1 x 2 frame with an unknown pattern, under every calibration
RawFrames ==
    {MkInput(4, 3, "RGGB", Impulse(4, 3, MaxSample, 6, 0), c) :
        c \in Calibrations}
      \cup {MkInput(1, 2, "GRBG", Impulse(1, 2, MaxSample, 1, 0), c) :
                c \in Calibrations}

\* ImageBuffer::from_raw(width, height, buf): None when buf is too short
FromRaw(w, h, buf) ==
    IF Len(buf) < w * h * 3 THEN None
    ELSE Some([w |-> w, h |-> h,
               px |-> [i \in 1..(w * h) |->
                          <<buf[3 * i - 2], buf[3 * i - 1], buf[3 * i]>>]])

NoImage == [w |-> 0, h |-> 0, px |-> <<>>]

\* Ok((img, exif_map)), as returned by the decoder named
Ok(decoder, img, exif) ==
    [ok |-> TRUE, decoder |-> decoder, image |-> img, exif |-> exif,
     error |-> "", context |-> <<>>, path |-> None]

\* Err(anyhow!(msg)) or a ? on a library error: the error carries its message
\* and the context layers attached to it, of which the code attaches none
Err(decoder, msg) ==
    [ok |-> FALSE, decoder |-> decoder, image |-> NoImage, exif |-> {},
     error |-> msg, context |-> <<>>, path |-> None]

\* The tags the EXIF reader lists for a file whose container parses
ExifFields(exif) ==
    IF exif.kind = "parse_error" THEN {}
    ELSE {"DateTime"} \cup
         (IF exif.kind = "no_field" THEN {} ELSE {"Orientation"})

\* load_standard with the EXIF reader's error propagated by ?
load_standard_exifFatal(file) ==
    IF ~file.io THEN Err("standard", "io")
    ELSE IF file.std # "ok" THEN Err("standard", "decode")
    ELSE IF file.exif.kind = "parse_error" THEN Err("standard", "exif")
    ELSE Ok("standard", ExifOrient(StdImage, file.exif),
            ExifFields(file.exif))

\* load_standard
load_standard(file) ==
    IF ~file.io THEN Err("standard", "io")
    ELSE IF file.std # "ok" THEN Err("standard", "decode")
    ELSE Ok("standard", ExifOrient(StdImage, file.exif),
            ExifFields(file.exif))

\* The end of load_raw, from ImageBuffer::from_raw(..).ok_or_else(..)? on:
\* the buffer made into an image, oriented by the EXIF pass
RawImage(buffer, exif) ==
    IF buffer = None
    THEN Err("raw", "Failed to create image buffer")
    ELSE Ok("raw", ExifOrient(Unwrap(buffer), exif), {"Make", "Model"})

\* The demosaiced frame handed to ImageBuffer::from_raw
RawBuffer(raw) == FromRaw(raw.width, raw.height, demosaic_bilinear(raw))

\* load_raw with a payload that is not Integer read as an empty sample array
\* instead of returning the error
load_raw_floatAsEmpty(file) ==
    IF ~file.io \/ file.raw = "err" THEN Err("raw", "raw decode")
    ELSE IF file.raw # "int" THEN Ok("raw", NoImage, {"Make", "Model"})
    ELSE RawImage(RawBuffer(Unwrap(file.frame)), file.exif)

\* load_raw
load_raw(file) ==
    IF ~file.io \/ file.raw = "err" THEN Err("raw", "raw decode")
    ELSE IF file.raw # "int" THEN Err("raw", "Unsupported raw data format")
    ELSE RawImage(RawBuffer(Unwrap(file.frame)), file.exif)

\* The end of load_image: the ? on the decoder's result, and on success the
\* LoadedImage record, which carries the path
Loaded(res, path) ==
    IF res.ok THEN [res EXCEPT !.path = Some(path)] ELSE res

\* The decoder's result, or the result of the other decoder when it failed
OrElse(first, second) == IF first.ok THEN first ELSE second

\* load_image retrying a failed decode with the other decoder
load_image_fallback(in) ==
    Loaded(IF Route(in.path.name) = "raw"
           THEN OrElse(load_raw(in.file), load_standard(in.file))
           ELSE OrElse(load_standard(in.file), load_raw(in.file)), in.path)

\* load_image: the result of the decoder the extension selects
load_image(in) ==
    Loaded(IF Route(in.path.name) = "raw"
           THEN load_raw(in.file) ELSE load_standard(in.file), in.path)

\* The upper-case letter of a lower-case letter; other characters have none
UpperOf(c) ==
    IF \E i \in 1..Len(Lower) : Lower[i] = c
    THEN Upper[CHOOSE i \in 1..Len(Lower) : Lower[i] = c]
    ELSE c

RECURSIVE CaseVariants(_)
\* Every spelling of the lower-case string s in upper and lower case
CaseVariants(s) ==
    IF s = <<>> THEN {<<>>}
    ELSE {<<c>> \o t : c \in {s[1], UpperOf(s[1])},
                       t \in CaseVariants(Tail(s))}

\* Extensions: the four RAW ones, two standard ones, a prefix of a RAW one
\* and a RAW one with a letter more, each in every case; and the empty one
LoadExtensions ==
    UNION {CaseVariants(e) :
            e \in RawExtensions \cup {<<"j","p","g">>, <<"p","n","g">>,
                                      <<"n","e">>, <<"n","e","f","x">>}}
        \cup {<<>>}

\* File names: a.EXT, EXT with no dot, the hidden file .EXT, a.EXT.jpg,
\* a.jpg.EXT, and a.EXT followed by a dot
LoadNames ==
    UNION {{<<"a", ".">> \o e,
            e,
            <<".">> \o e,
            <<"a", ".">> \o e \o <<".", "j", "p", "g">>,
            <<"a", ".", "j", "p", "g", ".">> \o e,
            <<"a", ".">> \o e \o <<".">>} : e \in LoadExtensions} \ {<<>>}

\* What the libraries make of a file's content: a JPEG; a RAW file with a
\* float payload; a file neither decoder reads; a file that cannot be
\* opened; a RAW file with an integer payload, which decodes to a frame; and
\* such a file that the standard decoder also reads (as TIFF)
FileContents ==
    { [io |-> TRUE, std |-> "ok", raw |-> "err", frame |-> None],
      [io |-> TRUE, std |-> "err", raw |-> "float", frame |-> None],
      [io |-> TRUE, std |-> "err", raw |-> "err", frame |-> None],
      [io |-> FALSE, std |-> "err", raw |-> "err", frame |-> None] }
      \cup {[io |-> TRUE, std |-> s, raw |-> "int", frame |-> Some(f)] :
                s \in {"ok", "err"}, f \in RawFrames}

\* The file with content c and EXIF e
MkFile(c, e) ==
    [io |-> c.io, std |-> c.std, raw |-> c.raw, frame |-> c.frame,
     exif |-> e]

\* What the EXIF reader finds in the files loaded
LoadExifs ==
    {[kind |-> e, k |-> 0] : e \in {"parse_error", "no_field"}}
        \cup {[kind |-> "short", k |-> k] : k \in {1, 6, 9}}

LoadInit ==
    /\ \E n \in LoadNames, c \in FileContents, e \in LoadExifs :
          ld_in = [path |-> MkPath("d1", n), file |-> MkFile(c, e)]
    /\ ld_out = None
    /\ current_path = None
    /\ image_list = <<>>
    /\ texture = None
    /\ exif_data = None
    /\ camera = Home
    /\ load_time = None
    /\ workers = <<>>
    /\ events = <<>>
    /\ stderr_log = {}
    /\ nav_ret = NavIdle
    /\ or_img = Idle /\ or_orig = Idle /\ or_hist = Idle
    /\ dm_in = Idle /\ dm_out = Idle

\* crate::loader::load_image(&path)
LoadImage ==
    /\ ld_out = None
    /\ ld_out' = Some(load_image(ld_in))
    /\ UNCHANGED ld_in
    /\ UNCHANGED notLoad

LoadNext == LoadImage

SpecLoad == LoadInit /\ [][LoadNext]_vars

\* Two characters that are the same letter in either case, or equal
SameIgnoringCase(a, b) ==
    \/ a = b
    \/ \E i \in 1..Len(Lower) :
          a \in {Lower[i], Upper[i]} /\ b \in {Lower[i], Upper[i]}

\* The name ends in a dot, not its first character, followed by a spelling
\* in any case of nef, cr2, dng or arw
HasRawExtension(name) ==
    \E r \in {<<"n","e","f">>, <<"c","r","2">>, <<"d","n","g">>,
              <<"a","r","w">>} :
        LET dot == Len(name) - Len(r)
        IN /\ dot >= 2
           /\ name[dot] = "."
           /\ \A j \in 1..Len(r) : SameIgnoringCase(name[dot + j], r[j])

\* C2: load_image routes a path to load_raw if and only if its extension,
\* lowercased, is one of nef, cr2, dng, arw; every other extension, and a
\* path with no extension, goes to load_standard.
C2_Routing ==
    ld_out # None =>
        /\ HasRawExtension(ld_in.path.name)
              => Unwrap(ld_out).decoder = "raw"
        /\ ~HasRawExtension(ld_in.path.name)
              => Unwrap(ld_out).decoder = "standard"

\* C2 witness: a.NeF was routed to load_raw
C2_Witness ==
    /\ ld_out # None
    /\ ld_in.path.name = <<"a", ".", "N", "e", "F">>
    /\ Unwrap(ld_out).decoder = "raw"

\* The frame the RAW library decoded from the file loaded
DecodedFrame == Unwrap(ld_in.file.frame)

\* load_raw ran on a file that the RAW library decodes to an integer frame
RawDecoded ==
    /\ ld_out # None
    /\ Unwrap(ld_out).decoder = "raw"
    /\ ld_in.file.raw = "int"

\* C12: load_raw validates the preconditions of the demosaic stage: a frame
\* with a channel whose white level is not strictly greater than its black
\* level makes load_raw return an error.
C12_Validated ==
    (/\ RawDecoded
     /\ \E c \in 1..3 :
           DecodedFrame.whitelevels[c] <= DecodedFrame.blacklevels[c])
    => ~Unwrap(ld_out).ok

\* C13: when the RAW library decodes a file whose payload is not an integer
\* sample array, load_raw and so load_image return the error "Unsupported
\* raw data format": no LoadedImage record, and no image is demosaiced.
C13_FloatPayload ==
    (/\ ld_out # None
     /\ Unwrap(ld_out).decoder = "raw"
     /\ ld_in.file.raw = "float")
    => /\ ~Unwrap(ld_out).ok
       /\ Unwrap(ld_out).error = "Unsupported raw data format"
       /\ Unwrap(ld_out).path = None
       /\ Unwrap(ld_out).image = NoImage

\* C13 witness: a.dng holds a float payload and the load returned the error
C13_Witness ==
    /\ ld_out # None
    /\ ld_in.path.name = <<"a", ".", "d", "n", "g">>
    /\ ld_in.file.raw = "float"
    /\ Unwrap(ld_out).error = "Unsupported raw data format"

\* C14: every error load_image returns carries context naming the stage that
\* failed; a RAW file with a float payload is reported as
\* UnsupportedRawPayload with stage "raw_decode".
C14_StageContext ==
    (ld_out # None /\ ~Unwrap(ld_out).ok)
    => /\ Unwrap(ld_out).context # <<>>
       /\ (Unwrap(ld_out).decoder = "raw" /\ ld_in.file.raw = "float")
             => /\ Unwrap(ld_out).error = "UnsupportedRawPayload"
                /\ Unwrap(ld_out).context = <<"raw_decode">>

\* C15: a failure to read or parse EXIF never fails a load whose pixel
\* decode succeeded: load_standard returns the decoded image untransformed
\* with an empty metadata map, load_raw the demosaiced image untransformed
\* with a metadata map of exactly Make and Model.
C15_ExifNonFatal ==
    (ld_out # None /\ ld_in.file.exif.kind = "parse_error")
    => /\ (Unwrap(ld_out).decoder = "standard" /\ ld_in.file.io
              /\ ld_in.file.std = "ok")
            => /\ Unwrap(ld_out).ok
               /\ Unwrap(ld_out).image = StdImage
               /\ Unwrap(ld_out).exif = {}
       /\ RawDecoded
            => /\ Unwrap(ld_out).ok
               /\ Unwrap(ld_out).image =
                     Unwrap(FromRaw(DecodedFrame.width, DecodedFrame.height,
                                    demosaic_bilinear(DecodedFrame)))
               /\ Unwrap(ld_out).exif = {"Make", "Model"}

\* C15 witness: a.png decodes, its EXIF does not parse, and the load
\* returned the decoded image with an empty metadata map
C15_Witness ==
    /\ ld_out # None
    /\ ld_in.path.name = <<"a", ".", "p", "n", "g">>
    /\ ld_in.file.std = "ok"
    /\ ld_in.file.exif.kind = "parse_error"
    /\ Unwrap(ld_out).ok
    /\ Unwrap(ld_out).image = StdImage
    /\ Unwrap(ld_out).exif = {}

\* C17: dispatch is by extension alone and no recovery is attempted: when the
\* decoder the extension selects fails, load_image returns that decoder's
\* error and no image, also for a file the other decoder would have read.
C17_NoFallback ==
    ld_out # None =>
        /\ (HasRawExtension(ld_in.path.name) /\ ld_in.file.raw # "int")
              => /\ ~Unwrap(ld_out).ok
                 /\ Unwrap(ld_out).decoder = "raw"
                 /\ Unwrap(ld_out).image = NoImage
                 /\ Unwrap(ld_out).path = None
        /\ (~HasRawExtension(ld_in.path.name)
                /\ ~(ld_in.file.io /\ ld_in.file.std = "ok"))
              => /\ ~Unwrap(ld_out).ok
                 /\ Unwrap(ld_out).decoder = "standard"
                 /\ Unwrap(ld_out).image = NoImage
                 /\ Unwrap(ld_out).path = None

\* C17 witness: a JPEG named a.arw was sent to load_raw and the load
\* returned the RAW decoder's error
C17_Witness ==
    /\ ld_out # None
    /\ ld_in.path.name = <<"a", ".", "a", "r", "w">>
    /\ ld_in.file.std = "ok" /\ ld_in.file.raw = "err"
    /\ ~Unwrap(ld_out).ok
    /\ Unwrap(ld_out).decoder = "raw"
    /\ Unwrap(ld_out).error = "raw decode"

\* C18: for every mosaic of width W >= 1 and height H >= 1, demosaic_bilinear
\* returns exactly W * H * 3 bytes, so ImageBuffer::from_raw(W, H, ..) in
\* load_raw yields a buffer and "Failed to create image buffer" cannot occur.
C18_OutputLength ==
    dm_out # None =>
        /\ Len(Unwrap(dm_out)) = dm_in.width * dm_in.height * 3
        /\ FromRaw(dm_in.width, dm_in.height, Unwrap(dm_out)) # None
        /\ RawImage(FromRaw(dm_in.width, dm_in.height, Unwrap(dm_out)),
                    [kind |-> "no_field", k |-> 0]).ok

\* C18 witness: a 4 x 3 mosaic gave 36 bytes, which from_raw accepts
C18_Witness ==
    /\ dm_out # None
    /\ dm_in.width = 4 /\ dm_in.height = 3
    /\ Len(Unwrap(dm_out)) = 36
    /\ FromRaw(4, 3, Unwrap(dm_out)) # None

\* The CFA colour of site (x, y), 1 for R, 2 for G, 3 for B: the pattern
\* table read with row = y mod 2 and col = x mod 2
CfaColour(pattern, x, y) ==
    LET tile == IF pattern = "RGGB" THEN <<1, 2, 2, 3>> ELSE <<3, 2, 2, 1>>
    IN tile[2 * (y % 2) + (x % 2) + 1]

\* The sites channel c of pixel (x, y) is to be reconstructed from: the site
\* itself when its colour is c, else the sites of colour c among its eight
\* neighbours
SitesOf(c, x, y) ==
    IF CfaColour(dm_in.pattern, x, y) = c THEN {<<x, y>>}
    ELSE {s \in ((x - 1)..(x + 1)) \X ((y - 1)..(y + 1)) :
            CfaColour(dm_in.pattern, s[1], s[2]) = c}

Diagonals(x, y) == {<<x - 1, y - 1>>, <<x + 1, y - 1>>,
                    <<x - 1, y + 1>>, <<x + 1, y + 1>>}
Orthogonals(x, y) == {<<x - 1, y>>, <<x + 1, y>>, <<x, y - 1>>, <<x, y + 1>>}
HorizontalPair(x, y) == {<<x - 1, y>>, <<x + 1, y>>}
VerticalPair(x, y) == {<<x, y - 1>>, <<x, y + 1>>}

RECURSIVE SumOfSamples(_)
\* The sum of the samples at the sites of S
SumOfSamples(S) ==
    IF S = {} THEN 0
    ELSE LET s == CHOOSE t \in S : TRUE
         IN get(dm_in, s[1], s[2]) + SumOfSamples(S \ {s})

\* C20: for RGGB and BGGR and every interior pixel, each reconstructed
\* channel is the mean of samples at sites of that channel's CFA colour only:
\* the site's own sample when the site has the colour; the four diagonal
\* neighbours for the opposite colour at R and B sites; the four orthogonal
\* neighbours for G at R and B sites; the horizontal or the vertical pair,
\* whichever has the colour, for R and B at G sites.
C20_InterpolationSites ==
    (dm_out # None /\ dm_in.pattern \in {"RGGB", "BGGR"})
    => \A x \in Columns, y \in Rows :
          Interior(x, y) =>
              \A c \in 1..3 :
                  /\ Interp(dm_in, x, y)[c] * Cardinality(SitesOf(c, x, y))
                        = 4 * SumOfSamples(SitesOf(c, x, y))
                  /\ CASE CfaColour(dm_in.pattern, x, y) = c ->
                            SitesOf(c, x, y) = {<<x, y>>}
                       [] CfaColour(dm_in.pattern, x, y) = 2 ->
                            SitesOf(c, x, y) \in {HorizontalPair(x, y),
                                                  VerticalPair(x, y)}
                       [] c = 2 -> SitesOf(c, x, y) = Orthogonals(x, y)
                       [] OTHER -> SitesOf(c, x, y) = Diagonals(x, y)

\* C20 witness: in the test's 4 x 4 RGGB mosaic the G site (2, 1) takes B
\* from its horizontal pair (two B sites) and R from its vertical pair
C20_Witness ==
    /\ dm_in = TestInput
    /\ dm_out # None
    /\ Interp(dm_in, 2, 1) = <<0, 0, 4 * TestLevel>>
    /\ OutPixel(2, 1) = <<0, 0, 255>>

\* The linear intensity of channel c at pixel (x, y)
Linear(c, x, y) ==
    Normalize(Interp(dm_in, x, y)[c], dm_in.blacklevels[c],
              dm_in.whitelevels[c], dm_in.wb_coeffs[c])

\* Every sample of the mosaic is at or below every channel's black level
AllAtOrBelowBlack ==
    \A x \in Columns, y \in Rows, c \in 1..3 :
        get(dm_in, x, y) <= dm_in.blacklevels[c]

\* C21: conditioning clamps at the black level: with white level > black
\* level, a reconstructed channel value at or below the channel's black
\* level has linear intensity 0 and no linear intensity is negative; and a
\* mosaic whose every sample is at or below every channel's black level
\* gives an output whose bytes are all 0, for any pattern.
C21_ClampAtBlack ==
    (/\ dm_out # None
     /\ \A c \in 1..3 : dm_in.whitelevels[c] > dm_in.blacklevels[c])
    => /\ \A x \in Columns, y \in Rows, c \in 1..3 :
            Interior(x, y) =>
                /\ Linear(c, x, y).k = "fin"
                /\ Linear(c, x, y).n >= 0
                /\ Interp(dm_in, x, y)[c] <= 4 * dm_in.blacklevels[c]
                      => Linear(c, x, y) = Fin(0, 1)
       /\ AllAtOrBelowBlack
            => \A j \in 1..Len(Unwrap(dm_out)) : Unwrap(dm_out)[j] = 0

\* C21 witness: a 3 x 3 mosaic under black level 1 whose centre sample 0 is
\* below the black level and whose other samples are at it; the centre pixel
\* is black
C21_Witness ==
    /\ dm_out # None
    /\ dm_in.width = 3 /\ dm_in.height = 3
    /\ \A c \in 1..3 : dm_in.blacklevels[c] = 1
                        /\ dm_in.whitelevels[c] = MaxSample + 1
    /\ get(dm_in, 1, 1) = 0
    /\ get(dm_in, 0, 0) = 1
    /\ AllAtOrBelowBlack
    /\ OutPixel(1, 1) = <<0, 0, 0>>

(***************************************************************************)
(* The event loop (main.rs): key presses and dropped files spawn a worker  *)
(* thread that runs load_image and posts ImageLoaded; the loop handles the *)
(* posted events one at a time with State::set_image.                      *)
(***************************************************************************)

\* The most loader threads one run dispatches
MaxLoads == 3

\* The path "/", which has no parent and names no file
RootPath == [dir |-> "/", name |-> <<>>]

\* The paths dropped on the window: an image of each directory (the other
\* images of d1 are reached with the arrow keys), a PNG that does not
\* decode, a file the navigator does not list, and "/"
DroppedPaths ==
    {MkPath("d1", N_a_jpg), MkPath("d1", N_c_png), MkPath("d2", N_x_JPG),
     MkPath("d2", N_y_bmp), RootPath}

\* What the libraries make of each file: "/" cannot be read as a file, c.png
\* and n.txt decode with neither decoder, b.NEF is a RAW file with an
\* integer payload and a rotated orientation, the others are standard images
FileOf(path) ==
    CASE path = RootPath ->
            MkFile([io |-> FALSE, std |-> "err", raw |-> "err",
                    frame |-> None], [kind |-> "parse_error", k |-> 0])
      [] path \in CorruptFiles ->
            MkFile([io |-> TRUE, std |-> "err", raw |-> "err",
                    frame |-> None], [kind |-> "parse_error", k |-> 0])
      [] path = MkPath("d1", N_b_NEF) ->
            MkFile([io |-> TRUE, std |-> "err", raw |-> "int",
                    frame |-> Some(RawFrame)], [kind |-> "short", k |-> 6])
      [] OTHER ->
            MkFile([io |-> TRUE, std |-> "ok", raw |-> "err",
                    frame |-> None], [kind |-> "no_field", k |-> 0])

\* crate::loader::load_image(&path) on the file at path
LoadOf(path) == load_image([path |-> path, file |-> FileOf(path)])

\* thread::spawn(move || load_image(&path) ...)
Spawn(path) ==
    /\ Len(workers) < MaxLoads
    /\ workers' = Append(workers, [path |-> path, st |-> "running"])

\* KeyCode::ArrowLeft
ArrowLeft ==
    /\ IF get_prev_image(current_path, image_list) # None
       THEN Spawn(Unwrap(get_prev_image(current_path, image_list)))
       ELSE UNCHANGED workers
    /\ UNCHANGED <<current_path, image_list, texture, exif_data, camera,
                   load_time, events, stderr_log>>
    /\ UNCHANGED notLoop

\* KeyCode::ArrowRight moving the navigator to the target as it dispatches
ArrowRight_advancing ==
    /\ IF get_next_image(current_path, image_list) # None
       THEN /\ Spawn(Unwrap(get_next_image(current_path, image_list)))
            /\ current_path' = get_next_image(current_path, image_list)
       ELSE UNCHANGED <<workers, current_path>>
    /\ UNCHANGED <<image_list, texture, exif_data, camera, load_time, events,
                   stderr_log>>
    /\ UNCHANGED notLoop

\* KeyCode::ArrowRight
ArrowRight ==
    /\ IF get_next_image(current_path, image_list) # None
       THEN Spawn(Unwrap(get_next_image(current_path, image_list)))
       ELSE UNCHANGED workers
    /\ UNCHANGED <<current_path, image_list, texture, exif_data, camera,
                   load_time, events, stderr_log>>
    /\ UNCHANGED notLoop

\* WindowEvent::DroppedFile(path)
DroppedFile ==
    /\ \E path \in DroppedPaths : Spawn(path)
    /\ UNCHANGED <<current_path, image_list, texture, exif_data, camera,
                   load_time, events, stderr_log>>
    /\ UNCHANGED notLoop

\* state.input(event) on WindowEvent::MouseWheel: camera.zoom *= 0.9 or 1.1
MouseWheel ==
    /\ camera' = Moved
    /\ UNCHANGED <<current_path, image_list, texture, exif_data, load_time,
                   workers, events, stderr_log>>
    /\ UNCHANGED notLoop

\* The Ok(img) arm of worker i: proxy.send_event(AppEvent::ImageLoaded(img));
\* the event is identified by the path of the LoadedImage it carries
SendEvent(i, res) ==
    /\ res.ok
    /\ workers' = [workers EXCEPT ![i].st = "sent"]
    /\ events' = Append(events, Unwrap(res.path))
    /\ UNCHANGED stderr_log

\* The Err(e) arm of worker i logging the error and posting an event for
\* the path all the same
LogError_andSend(i, res) ==
    /\ ~res.ok
    /\ workers' = [workers EXCEPT ![i].st = "failed"]
    /\ stderr_log' = stderr_log \cup {workers[i].path}
    /\ events' = Append(events, workers[i].path)

\* The Err(e) arm of worker i: eprintln!("Failed to load image: {:?}", e)
LogError(i, res) ==
    /\ ~res.ok
    /\ workers' = [workers EXCEPT ![i].st = "failed"]
    /\ stderr_log' = stderr_log \cup {workers[i].path}
    /\ UNCHANGED events

\* A worker's load_image returns Ok: the event is posted
WorkerSend ==
    /\ \E i \in 1..Len(workers) :
          /\ workers[i].st = "running"
          /\ SendEvent(i, LoadOf(workers[i].path))
    /\ UNCHANGED <<current_path, image_list, texture, exif_data, camera,
                   load_time>>
    /\ UNCHANGED notLoop

\* A worker's load_image returns Err: the error is logged, nothing is sent
WorkerFail ==
    /\ \E i \in 1..Len(workers) :
          /\ workers[i].st = "running"
          /\ LogError(i, LoadOf(workers[i].path))
    /\ UNCHANGED <<current_path, image_list, texture, exif_data, camera,
                   load_time>>
    /\ UNCHANGED notLoop

\* Event::UserEvent(ImageLoaded(loaded_image)) => state.set_image(..),
\* which ends with navigator.update_file_list(&loaded_image.path)
HandleImageLoaded ==
    /\ events # <<>>
    /\ LET loaded == Head(events)
       IN /\ texture' = Some(loaded)
          /\ camera' = Home
          /\ load_time' = Some(loaded)
          /\ exif_data' = Some(loaded)
          /\ current_path' = UpdatedCurrent(current_path, image_list, loaded)
          /\ image_list' = UpdatedList(image_list, loaded)
    /\ events' = Tail(events)
    /\ UNCHANGED <<workers, stderr_log>>
    /\ UNCHANGED notLoop

Init ==
    /\ current_path = None
    /\ image_list = <<>>
    /\ texture = None
    /\ exif_data = None
    /\ camera = Home
    /\ load_time = None
    /\ workers = <<>>
    /\ events = <<>>
    /\ stderr_log = {}
    /\ nav_ret = NavIdle
    /\ ld_in = Idle /\ ld_out = Idle
    /\ or_img = Idle /\ or_orig = Idle /\ or_hist = Idle
    /\ dm_in = Idle /\ dm_out = Idle

Next ==
    \/ ArrowLeft
    \/ ArrowRight
    \/ DroppedFile
    \/ MouseWheel
    \/ WorkerSend
    \/ WorkerFail
    \/ HandleImageLoaded

Spec == Init /\ [][Next]_vars

\* Every dispatched load has completed and every posted event was handled.
AllHandled ==
    /\ events = <<>>
    /\ \A i \in 1..Len(workers) : workers[i].st # "running"

\* C1: out-of-order completions are tolerated: once the loads of two
\* requested paths have both completed and both ImageLoaded events have been
\* handled, the image shown, the metadata and the navigator's current_path
\* are those of the path requested last.
C1_LastRequestedWins ==
    (/\ Len(workers) = 2
     /\ AllHandled
     /\ \A i \in 1..Len(workers) : workers[i].st = "sent")
    => /\ texture = Some(workers[2].path)
       /\ exif_data = Some(workers[2].path)
       /\ current_path = Some(workers[2].path)


\* Worker i's thread ends in this step with an error from load_image
FailsNow(i) ==
    /\ workers[i].st = "running"
    /\ workers'[i].st # "running"
    /\ ~LoadOf(workers[i].path).ok

\* C16: when load_image returns an error on a worker thread, the error is
\* logged, no ImageLoaded event is sent, and the displayed image, camera,
\* load time, metadata, current_path and image_list are unchanged; no event
\* in the queue and no image shown is ever that of a failed load.
C16_ErrorLeavesState ==
    /\ [][\A i \in 1..Len(workers) :
            FailsNow(i) =>
                /\ workers[i].path \in stderr_log'
                /\ events' = events
                /\ texture' = texture
                /\ camera' = camera
                /\ load_time' = load_time
                /\ exif_data' = exif_data
                /\ current_path' = current_path
                /\ image_list' = image_list]_vars
    /\ [](/\ \A k \in 1..Len(events) : LoadOf(events[k]).ok
          /\ texture # None => LoadOf(Unwrap(texture)).ok)

\* C16 witness: an image is shown with the camera moved, the load of c.png
\* has failed and was logged, and no event is pending
C16_Witness ==
    /\ texture = Some(MkPath("d1", N_a_jpg))
    /\ current_path = Some(MkPath("d1", N_a_jpg))
    /\ camera = Moved
    /\ events = <<>>
    /\ \E i \in 1..Len(workers) :
          workers[i] = [path |-> MkPath("d1", N_c_png), st |-> "failed"]
    /\ MkPath("d1", N_c_png) \in stderr_log


\* The event loop handles the ImageLoaded event at the head of the queue
HandlesEvent == events # <<>> /\ events' = Tail(events)

\* C19: the record load_image(p) returns has path = p, and handling its
\* ImageLoaded event leaves the navigator's current_path equal to p, whether
\* or not the file list is rescanned; and update_file_list called with any
\* path, "/" with no parent included, on the navigator in any state it
\* reaches, leaves current_path equal to that path.
C19_PathSeedsNavigator ==
    /\ [](\A i \in 1..Len(workers) :
            workers[i].st = "sent"
                => LoadOf(workers[i].path).path = Some(workers[i].path))
    /\ [](\A k \in 1..Len(events) :
            \E i \in 1..Len(workers) :
                workers[i].st = "sent" /\ workers[i].path = events[k])
    /\ [][HandlesEvent => current_path' = Some(Head(events))]_vars
    /\ [](\A p \in AllFiles \cup {RootPath} :
            UpdatedCurrent(current_path, image_list, p) = Some(p))

\* C19 witness: b.NEF was loaded after a.jpg of the same directory, so the
\* list was not rescanned, and current_path is b.NEF
C19_Witness ==
    /\ Len(workers) = 2
    /\ workers[1] = [path |-> MkPath("d1", N_a_jpg), st |-> "sent"]
    /\ workers[2] = [path |-> MkPath("d1", N_b_NEF), st |-> "sent"]
    /\ events = <<>>
    /\ texture = Some(MkPath("d1", N_b_NEF))
    /\ current_path = Some(MkPath("d1", N_b_NEF))
    /\ image_list = ScanDir("d1")


\* The worker list after a key press whose target is the Option target
Dispatched(target) ==
    IF target = None THEN workers
    ELSE Append(workers, [path |-> Unwrap(target), st |-> "running"])

\* a.jpg was loaded and shown, then the key was pressed twice before any
\* further event was handled, and both loads of path p have completed and
\* been handled
PressedTwice(p) ==
    /\ Len(workers) = 3
    /\ workers[1] = [path |-> MkPath("d1", N_a_jpg), st |-> "sent"]
    /\ workers[2] = [path |-> p, st |-> "sent"]
    /\ workers[3] = [path |-> p, st |-> "sent"]
    /\ events = <<>>

\* C22: ArrowRight and ArrowLeft take their target from the navigator's
\* current_path, which changes only when an ImageLoaded event is handled: a
\* press dispatches a load of the next (previous) image of current_path, and
\* none when there is no such image; so two presses before the first load's
\* event dispatch the same path twice, and after both loads the view is one
\* image on, not two.
C22_ArrowsUseCurrentPath ==
    /\ [][current_path' # current_path => HandlesEvent]_vars
    /\ [][ArrowRight =>
            workers' = Dispatched(get_next_image(current_path, image_list))]_vars
    /\ [][ArrowLeft =>
            workers' = Dispatched(get_prev_image(current_path, image_list))]_vars
    /\ [](PressedTwice(MkPath("d1", N_b_NEF))
            => /\ current_path = Some(MkPath("d1", N_b_NEF))
               /\ texture = Some(MkPath("d1", N_b_NEF)))
    /\ [](PressedTwice(MkPath("d1", N_B_jpeg))
            => /\ current_path = Some(MkPath("d1", N_B_jpeg))
               /\ texture = Some(MkPath("d1", N_B_jpeg)))

\* C22 witness: with a.jpg shown, ArrowRight was pressed twice; b.NEF was
\* loaded twice and is the image shown
C22_Witness ==
    /\ PressedTwice(MkPath("d1", N_b_NEF))
    /\ current_path = Some(MkPath("d1", N_b_NEF))
    /\ image_list = ScanDir("d1")
    /\ get_next_image(current_path, image_list) = Some(MkPath("d1", N_c_png))

====
